---- MODULE Spec2Model ----
(***************************************************************************)
(* Backup lifecycle of backup-service: BackupService (createBackup,        *)
(* restoreBackup, deleteBackup, cleanupOldBackups) over the backupLog      *)
(* ledger, the S3 bucket, the local directory /tmp/backups and the live    *)
(* database; BackupScheduler (start-up, cron jobs, fires, rescheduling)    *)
(* over the backupSchedule table and the SchedulerRegistry; the probe of   *)
(* BackupController.                                                       *)
(*                                                                         *)
(* Every async method is cut at its awaits: one action per awaited call,   *)
(* so that concurrent invocations interleave exactly where the event loop  *)
(* can switch between them.  The external services (pg_dump/psql, S3, the  *)
(* ledger database) can reject a call; the local file system is state:     *)
(* unlink and readFile fail exactly when the file is absent.               *)
(***************************************************************************)
EXTENDS Integers, Sequences, FiniteSets, TLC

\* ---------------------------------------------------------------- bounds
MaxRecords == 2          \* ledger rows created in one behaviour
MaxNow == 2              \* last clock tick
MaxCalls == 2            \* calls in flight at the same time

MaxSweepRows == 3        \* rows of the ledger a retention sweep starts from
MaxSweeps == 1           \* direct cleanupOldBackups calls in one behaviour
RestartDays == 8         \* the clock, in days, when old rows are in the ledger

\* clock ticks per second: toISOString() has finer grain than the
\* second-grained name built from it
TicksPerSecond == 2

\* Date.setDate moves the date by whole calendar days; the process runs in
\* UTC (the image sets no TZ), where every day has this many seconds
SecondsPerDay == 86400

TicksPerDay == SecondsPerDay * TicksPerSecond

\* ------------------------------------------------------- enums, constants
BackupType == {"DAILY", "WEEKLY", "MONTHLY", "MANUAL"}

BackupStatus == {"IN_PROGRESS", "COMPLETED", "FAILED", "DELETED"}

\* the types requested in the checked behaviours
RunTypes == {"DAILY", "MANUAL"}

\* an absent (null) column or variable
Null == "null"

\* error.message of the errors the services throw
DumpError == "Database backup failed"
UploadError == "S3 upload failed"
DownloadError == "S3 download failed"
S3DeleteError == "S3 delete failed"
RestoreError == "Database restore failed"
LedgerError == "ledger write rejected"
UnlinkError == "ENOENT: no such file or directory, unlink"
InvalidState == "Cannot restore from backup with status"
NotFound == "Backup not found"

VARIABLES
    now,        \* clock
    db,         \* live database: 0, or the row whose dump was applied last
    ledger,     \* backupLog rows; the row id is the index
    run,        \* run[i]: the createBackup call that inserted row i
    del,        \* del[i]: the deleteBackup(i) call in flight
    rst,        \* rst[i]: the restoreBackup(i) call in flight
    last,       \* the deleteBackup or restoreBackup call that settled last
    s3,         \* bucket: the keys that hold an object
    files,      \* /tmp/backups: the paths that hold a file
    schedules,  \* backupSchedule rows, keyed by type
    registry,   \* SchedulerRegistry: the cron job registered under a type
    jobs,       \* the cron jobs that are started
    boot,       \* onModuleInit: where initializeSchedules stands
    call,       \* the updateSchedule call that has run last
    exe         \* the executeBackup and cleanupOldBackups calls

vars == <<now, db, ledger, run, del, rst, last, s3, files,
          schedules, registry, jobs, boot, call, exe>>

\* the scheduler's own state
sched == <<schedules, registry, jobs, boot, call>>

\* ------------------------------------------------------------- helpers
Ids == 1..Len(ledger)

\* new Date().toISOString().replace(/[:.]/g, '-').slice(0, -5):
\* the milliseconds are cut off, the name is second-grained
Timestamp(t) == t \div TicksPerSecond

\* `backup-${timestamp}.sql.gz`
FileName(t) == <<"backup", Timestamp(t)>>

\* `${type.toLowerCase()}/${fileName}`
S3Key(type, t) == <<type, FileName(t)>>

\* path.join(backupDir, fileName)
BackupPath(fileName) == <<"/tmp/backups", fileName[1], fileName[2]>>

\* path.join('/tmp/backups', `restore-${backup.fileName}`)
RestorePath(fileName) == <<"/tmp/backups", "restore-backup", fileName[2]>>

\* no call in flight in this slot; of a call in flight: where it stands,
\* the status it read, whether its deleteFile has succeeded
IdleCall == [pc |-> "idle", snap |-> Null, s3ok |-> FALSE]

\* createBackup has resolved or rejected
Resolved(r) == r.pc \in {"returned", "thrown", "aborted"}

\* number of calls in flight
InFlight ==
    Cardinality({i \in Ids : ~Resolved(run[i])})
    + Cardinality({i \in Ids : del[i].pc # "idle"})
    + Cardinality({i \in Ids : rst[i].pc # "idle"})

\* the settled call: err = Null when it returned
Outcome(op, i, snap, err) == [op |-> op, id |-> i, snap |-> snap, err |-> err]

NoOutcome == Outcome(Null, 0, Null, Null)

\* no call of BackupScheduler.updateSchedule; of a call: its arguments and
\* the registry and the started jobs it found
NoCall == [op |-> Null, type |-> Null, cronExpression |-> Null,
           enabled |-> FALSE, registry |-> [t \in {} |-> t], jobs |-> {}]

\* the caller of the call that settled last has taken its outcome
Taken == last.op = Null /\ call.op = Null

\* a table, or a map, without entries
NoRows == [t \in {} |-> t]

\* ------------------------------------------------------------------ Init
Init ==
    /\ now = 0
    /\ db = 0
    /\ ledger = <<>>
    /\ run = <<>>
    /\ del = <<>>
    /\ rst = <<>>
    /\ last = NoOutcome
    /\ s3 = {}
    /\ files = {}
    /\ schedules = NoRows
    /\ registry = NoRows
    /\ jobs = {}
    /\ boot = [pc |-> "getSchedules", k |-> 0]
    /\ call = NoCall
    /\ exe = <<>>

\* ----------------------------------------------------------- environment
Tick ==
    /\ Taken
    /\ now < MaxNow
    /\ now' = now + 1
    /\ UNCHANGED <<db, ledger, run, del, rst, last, s3, files>>
    /\ UNCHANGED <<sched, exe>>

\* the caller of deleteBackup or restoreBackup takes the outcome
Observe ==
    /\ ~Taken
    /\ last' = NoOutcome
    /\ UNCHANGED <<now, db, ledger, run, del, rst, s3, files>>
    /\ UNCHANGED <<sched, exe>>

\* ------------------------------------------------- BackupService.createBackup
\* lines 22-37: name the backup after the clock and insert the row
createBackup(type) ==
    /\ Taken
    /\ Len(ledger) < MaxRecords
    /\ InFlight < MaxCalls
    /\ ledger' = Append(ledger,
          [type |-> type, status |-> "IN_PROGRESS",
           fileName |-> FileName(now), s3Key |-> S3Key(type, now),
           startedAt |-> now, completedAt |-> Null,
           size |-> Null, errorMessage |-> Null])
    /\ run' = Append(run, [pc |-> "dump", err |-> Null, step |-> Null,
                           size |-> Null, uploads |-> 0, warn |-> Null])
    /\ del' = Append(del, IdleCall)
    /\ rst' = Append(rst, IdleCall)
    /\ UNCHANGED <<now, db, last, s3, files>>
    /\ UNCHANGED sched

\* line 41, DatabaseService.createBackup succeeds: the dump is on disk,
\* stats.size is that of the dump of run i
DumpOk(i) ==
    /\ Taken
    /\ run[i].pc = "dump"
    /\ files' = files \cup {BackupPath(ledger[i].fileName)}
    /\ run' = [run EXCEPT ![i].pc = "upload", ![i].size = i]
    /\ UNCHANGED <<now, db, ledger, del, rst, last, s3>>
    /\ UNCHANGED <<sched, exe>>

\* line 41, pg_dump fails: the partial file is unlinked and the error wrapped
DumpFailMutant(i) ==
    /\ Taken
    /\ run[i].pc = "dump"
    /\ files' = files \cup {BackupPath(ledger[i].fileName)}
    /\ run' = [run EXCEPT ![i].pc = "catch", ![i].err = DumpError,
                          ![i].step = "dump"]
    /\ UNCHANGED <<now, db, ledger, del, rst, last, s3>>
    /\ UNCHANGED <<sched, exe>>

DumpFail(i) ==
    /\ Taken
    /\ run[i].pc = "dump"
    /\ files' = files \ {BackupPath(ledger[i].fileName)}
    /\ run' = [run EXCEPT ![i].pc = "catch", ![i].err = DumpError,
                          ![i].step = "dump"]
    /\ UNCHANGED <<now, db, ledger, del, rst, last, s3>>
    /\ UNCHANGED <<sched, exe>>

\* line 44, S3Service.uploadFile succeeds
UploadOk(i) ==
    /\ Taken
    /\ run[i].pc = "upload"
    /\ BackupPath(ledger[i].fileName) \in files
    /\ s3' = s3 \cup {ledger[i].s3Key}
    /\ run' = [run EXCEPT ![i].pc = "unlink", ![i].uploads = @ + 1]
    /\ UNCHANGED <<now, db, ledger, del, rst, last, files>>
    /\ UNCHANGED <<sched, exe>>

\* line 44, readFile or PutObject fails: nothing is stored
UploadFailMutant(i) ==
    /\ Taken
    /\ run[i].pc = "upload"
    /\ run' = [run EXCEPT ![i].pc = "unlink", ![i].uploads = @ + 1]
    /\ UNCHANGED <<now, db, ledger, del, rst, last, s3, files>>
    /\ UNCHANGED <<sched, exe>>

UploadFail(i) ==
    /\ Taken
    /\ run[i].pc = "upload"
    /\ run' = [run EXCEPT ![i].pc = "catch", ![i].err = UploadError,
                          ![i].step = "upload", ![i].uploads = @ + 1]
    /\ UNCHANGED <<now, db, ledger, del, rst, last, s3, files>>
    /\ UNCHANGED <<sched, exe>>

\* line 47, DatabaseService.deleteLocalBackup: unlink; when it fails (the
\* file is not there) lines 110-112 log a warning and the call returns
DeleteLocalMutant(i) ==
    /\ Taken
    /\ run[i].pc = "unlink"
    /\ files' = files \ {BackupPath(ledger[i].fileName)}
    /\ run' = IF BackupPath(ledger[i].fileName) \in files
              THEN [run EXCEPT ![i].pc = "complete"]
              ELSE [run EXCEPT ![i].pc = "catch", ![i].err = UnlinkError,
                               ![i].step = "unlink"]
    /\ UNCHANGED <<now, db, ledger, del, rst, last, s3>>
    /\ UNCHANGED <<sched, exe>>

DeleteLocal(i) ==
    /\ Taken
    /\ run[i].pc = "unlink"
    /\ files' = files \ {BackupPath(ledger[i].fileName)}
    /\ run' = [run EXCEPT ![i].pc = "complete",
                          ![i].warn = IF BackupPath(ledger[i].fileName)
                                          \in files
                                       THEN Null ELSE UnlinkError]
    /\ UNCHANGED <<now, db, ledger, del, rst, last, s3>>
    /\ UNCHANGED <<sched, exe>>

\* lines 50-61: the ledger takes the COMPLETED update
CompleteOkMutant(i) ==
    /\ Taken
    /\ run[i].pc = "complete"
    /\ ledger' = [ledger EXCEPT ![i].size = run[i].size,
                                ![i].completedAt = now]
    /\ run' = [run EXCEPT ![i].pc = "returned"]
    /\ UNCHANGED <<now, db, del, rst, last, s3, files>>
    /\ UNCHANGED <<sched, exe>>

CompleteOk(i) ==
    /\ Taken
    /\ run[i].pc = "complete"
    /\ ledger' = [ledger EXCEPT ![i].status = "COMPLETED",
                                ![i].size = run[i].size,
                                ![i].completedAt = now]
    /\ run' = [run EXCEPT ![i].pc = "returned"]
    /\ UNCHANGED <<now, db, del, rst, last, s3, files>>
    /\ UNCHANGED <<sched, exe>>

\* line 50: the ledger rejects the COMPLETED update
CompleteFail(i) ==
    /\ Taken
    /\ run[i].pc = "complete"
    /\ run' = [run EXCEPT ![i].pc = "catch", ![i].err = LedgerError,
                          ![i].step = "complete"]
    /\ UNCHANGED <<now, db, ledger, del, rst, last, s3, files>>
    /\ UNCHANGED <<sched, exe>>

\* lines 62-74: the ledger takes the FAILED update, the error is rethrown
CatchOkMutant(i) ==
    /\ Taken
    /\ run[i].pc = "catch"
    /\ ledger' = [ledger EXCEPT ![i].status = "FAILED",
                                ![i].errorMessage = run[i].err,
                                ![i].completedAt = now]
    /\ run' = [run EXCEPT ![i].pc = "returned"]
    /\ UNCHANGED <<now, db, del, rst, last, s3, files>>
    /\ UNCHANGED <<sched, exe>>

CatchOk(i) ==
    /\ Taken
    /\ run[i].pc = "catch"
    /\ ledger' = [ledger EXCEPT ![i].status = "FAILED",
                                ![i].errorMessage = run[i].err,
                                ![i].completedAt = now]
    /\ run' = [run EXCEPT ![i].pc = "thrown"]
    /\ UNCHANGED <<now, db, del, rst, last, s3, files>>
    /\ UNCHANGED <<sched, exe>>

\* line 64: the ledger rejects the FAILED update, that rejection propagates
CatchFailMutant(i) ==
    /\ Taken
    /\ run[i].pc = "catch"
    /\ run' = [run EXCEPT ![i].pc = "dump", ![i].err = Null,
                          ![i].step = Null]
    /\ UNCHANGED <<now, db, ledger, del, rst, last, s3, files>>
    /\ UNCHANGED <<sched, exe>>

CatchFail(i) ==
    /\ Taken
    /\ run[i].pc = "catch"
    /\ run' = [run EXCEPT ![i].pc = "aborted", ![i].err = LedgerError]
    /\ UNCHANGED <<now, db, ledger, del, rst, last, s3, files>>
    /\ UNCHANGED <<sched, exe>>

\* ------------------------------------------------- BackupService.deleteBackup
\* lines 167-181: read the row; a COMPLETED row goes to the bucket first
DeleteStartMutant(i) ==
    /\ Taken
    /\ del[i].pc = "idle"
    /\ InFlight < MaxCalls
    /\ del' = [del EXCEPT ![i] =
          [pc |-> "update", snap |-> ledger[i].status, s3ok |-> FALSE]]
    /\ UNCHANGED <<now, db, ledger, run, rst, last, s3, files>>
    /\ UNCHANGED sched

DeleteStart(i) ==
    /\ Taken
    /\ del[i].pc = "idle"
    /\ InFlight < MaxCalls
    /\ del' = [del EXCEPT ![i] =
          [pc |-> IF ledger[i].status = "COMPLETED" THEN "s3" ELSE "update",
           snap |-> ledger[i].status, s3ok |-> FALSE]]
    /\ UNCHANGED <<now, db, ledger, run, rst, last, s3, files>>
    /\ UNCHANGED sched

\* line 180, S3Service.deleteFile succeeds
DeleteFileOk(i) ==
    /\ Taken
    /\ del[i].pc = "s3"
    /\ s3' = s3 \ {ledger[i].s3Key}
    /\ del' = [del EXCEPT ![i].pc = "update", ![i].s3ok = TRUE]
    /\ UNCHANGED <<now, db, ledger, run, rst, last, files>>
    /\ UNCHANGED <<sched, exe>>

\* line 180, DeleteObject fails: lines 190-192 rethrow
DeleteFileFail(i) ==
    /\ Taken
    /\ del[i].pc = "s3"
    /\ del' = [del EXCEPT ![i] = IdleCall]
    /\ last' = Outcome("deleteBackup", i, del[i].snap, S3DeleteError)
    /\ UNCHANGED <<now, db, ledger, run, rst, s3, files>>
    /\ UNCHANGED <<sched, exe>>

\* lines 184-189: the ledger takes the DELETED update
MarkDeletedOk(i) ==
    /\ Taken
    /\ del[i].pc = "update"
    /\ ledger' = [ledger EXCEPT ![i].status = "DELETED"]
    /\ del' = [del EXCEPT ![i] = IdleCall]
    /\ last' = Outcome("deleteBackup", i, del[i].snap, Null)
    /\ UNCHANGED <<now, db, run, rst, s3, files>>
    /\ UNCHANGED <<sched, exe>>

\* line 184: the ledger rejects the update, lines 190-192 rethrow
MarkDeletedFail(i) ==
    /\ Taken
    /\ del[i].pc = "update"
    /\ del' = [del EXCEPT ![i] = IdleCall]
    /\ last' = Outcome("deleteBackup", i, del[i].snap, LedgerError)
    /\ UNCHANGED <<now, db, ledger, run, rst, s3, files>>
    /\ UNCHANGED <<sched, exe>>

\* ------------------------------------------------ BackupService.restoreBackup
\* lines 131-141: the row is not COMPLETED, the call is refused
RestoreRefused(i) ==
    /\ Taken
    /\ rst[i].pc = "idle"
    /\ ledger[i].status # "COMPLETED"
    /\ last' = Outcome("restoreBackup", i, ledger[i].status, InvalidState)
    /\ UNCHANGED <<now, db, ledger, run, del, rst, s3, files>>
    /\ UNCHANGED <<sched, exe>>

\* lines 131-148: the row is COMPLETED, the download is requested
RestoreStartMutant(i) ==
    /\ Taken
    /\ rst[i].pc = "idle"
    /\ InFlight < MaxCalls
    /\ rst' = [rst EXCEPT ![i] =
          [pc |-> "download", snap |-> ledger[i].status, s3ok |-> FALSE]]
    /\ UNCHANGED <<now, db, ledger, run, del, last, s3, files>>
    /\ UNCHANGED <<sched, exe>>

RestoreStart(i) ==
    /\ Taken
    /\ rst[i].pc = "idle"
    /\ InFlight < MaxCalls
    /\ ledger[i].status = "COMPLETED"
    /\ rst' = [rst EXCEPT ![i] =
          [pc |-> "download", snap |-> ledger[i].status, s3ok |-> FALSE]]
    /\ UNCHANGED <<now, db, ledger, run, del, last, s3, files>>
    /\ UNCHANGED <<sched, exe>>

\* line 148, S3Service.downloadFile succeeds
DownloadOk(i) ==
    /\ Taken
    /\ rst[i].pc = "download"
    /\ ledger[i].s3Key \in s3
    /\ files' = files \cup {RestorePath(ledger[i].fileName)}
    /\ rst' = [rst EXCEPT ![i].pc = "restore"]
    /\ UNCHANGED <<now, db, ledger, run, del, last, s3>>
    /\ UNCHANGED <<sched, exe>>

\* line 148, GetObject fails (the object may be gone): lines 157-159 rethrow
DownloadFail(i) ==
    /\ Taken
    /\ rst[i].pc = "download"
    /\ rst' = [rst EXCEPT ![i] = IdleCall]
    /\ last' = Outcome("restoreBackup", i, rst[i].snap, DownloadError)
    /\ UNCHANGED <<now, db, ledger, run, del, s3, files>>
    /\ UNCHANGED <<sched, exe>>

\* line 151, DatabaseService.restoreBackup succeeds: the dump is applied
RestoreOk(i) ==
    /\ Taken
    /\ rst[i].pc = "restore"
    /\ RestorePath(ledger[i].fileName) \in files
    /\ db' = i
    /\ rst' = [rst EXCEPT ![i].pc = "unlink"]
    /\ UNCHANGED <<now, ledger, run, del, last, s3, files>>
    /\ UNCHANGED <<sched, exe>>

\* line 151, fs.access or psql fails, the dump applied or not:
\* lines 157-159 rethrow, line 154 is skipped
RestoreFailMutant(i) ==
    /\ Taken
    /\ rst[i].pc = "restore"
    /\ db' \in IF RestorePath(ledger[i].fileName) \in files
                THEN {db, i} ELSE {db}
    /\ ledger' = [ledger EXCEPT ![i].status = "FAILED"]
    /\ rst' = [rst EXCEPT ![i] = IdleCall]
    /\ last' = Outcome("restoreBackup", i, rst[i].snap, RestoreError)
    /\ UNCHANGED <<now, run, del, s3, files>>
    /\ UNCHANGED <<sched, exe>>

RestoreFail(i) ==
    /\ Taken
    /\ rst[i].pc = "restore"
    /\ db' \in IF RestorePath(ledger[i].fileName) \in files
                THEN {db, i} ELSE {db}
    /\ rst' = [rst EXCEPT ![i] = IdleCall]
    /\ last' = Outcome("restoreBackup", i, rst[i].snap, RestoreError)
    /\ UNCHANGED <<now, ledger, run, del, s3, files>>
    /\ UNCHANGED <<sched, exe>>

\* line 154, DatabaseService.deleteLocalBackup, then the call returns
RestoreUnlink(i) ==
    /\ Taken
    /\ rst[i].pc = "unlink"
    /\ files' = files \ {RestorePath(ledger[i].fileName)}
    /\ rst' = [rst EXCEPT ![i] = IdleCall]
    /\ last' = Outcome("restoreBackup", i, rst[i].snap, Null)
    /\ UNCHANGED <<now, db, ledger, run, del, s3>>
    /\ UNCHANGED <<sched, exe>>

\* --------------------------------------------------------- unknown ids
\* an id no row has: the ids are the positions, the next one is free
UnknownIds == {Len(ledger) + 1}

\* lines 115-125: findUnique, NotFoundException when no row has the id,
\* the row otherwise
getBackupById(id) ==
    /\ Taken
    /\ id \in Ids \cup UnknownIds
    /\ last' = IF id \in Ids
               THEN Outcome("getBackupById", id, ledger[id].status, Null)
               ELSE Outcome("getBackupById", id, Null, NotFound)
    /\ UNCHANGED <<now, db, ledger, run, del, rst, s3, files>>
    /\ UNCHANGED <<sched, exe>>

\* lines 131-137: findUnique finds no row, NotFoundException
RestoreNotFound(id) ==
    /\ Taken
    /\ id \notin Ids
    /\ last' = Outcome("restoreBackup", id, Null, NotFound)
    /\ UNCHANGED <<now, db, ledger, run, del, rst, s3, files>>
    /\ UNCHANGED <<sched, exe>>

\* lines 167-173: findUnique finds no row, NotFoundException
DeleteNotFoundMutant(id) ==
    /\ Taken
    /\ id \notin Ids
    /\ last' = Outcome("deleteBackup", id, Null, Null)
    /\ UNCHANGED <<now, db, ledger, run, del, rst, s3, files>>
    /\ UNCHANGED <<sched, exe>>

DeleteNotFound(id) ==
    /\ Taken
    /\ id \notin Ids
    /\ last' = Outcome("deleteBackup", id, Null, NotFound)
    /\ UNCHANGED <<now, db, ledger, run, del, rst, s3, files>>
    /\ UNCHANGED <<sched, exe>>

\* ------------------------------------------- BackupService.cleanupOldBackups
\* an executeBackup call (by "cron" or "manual") with the row of its run, or
\* a direct cleanupOldBackups call (by "direct"); the sweep's fields: the
\* clock it read, retentionDays, cutoffDate, oldBackups (sel), the rows
\* still to visit, the row whose deleteBackup is awaited, the rows tried in
\* order, the rows whose deleteBackup returned, deletedCount
NewCall(by, type, id) ==
    [by |-> by, type |-> type, id |-> id, pc |-> "backup", err |-> Null,
     found |-> FALSE, at |-> 0, days |-> 0, cutoff |-> 0, sel |-> {},
     todo |-> {}, cur |-> 0, tried |-> <<>>, ok |-> {}, count |-> 0,
     lastRun |-> 0, nextRun |-> 0]

Calls == 1..Len(exe)

\* lines 234-235: cutoffDate = new Date(); setDate(getDate() - retentionDays)
CutoffDateMutant(t, retentionDays) == t + retentionDays * TicksPerDay

CutoffDate(t, retentionDays) == t - retentionDays * TicksPerDay

\* lines 238-246: findMany where type, status COMPLETED, startedAt lt cutoff
OldBackups(type, cutoffDate) ==
    {i \in Ids : /\ ledger[i].type = type
                 /\ ledger[i].status = "COMPLETED"
                 /\ ledger[i].startedAt < cutoffDate}

\* lines 232-238: the sweep reads the clock and asks for the old rows
StartSweep(x, retentionDays) ==
    [x EXCEPT !.pc = "find", !.at = now, !.days = retentionDays,
              !.cutoff = CutoffDate(now, retentionDays)]

\* lines 259-260 and the caller's next lines: a direct call returns the
\* count; in executeBackup the schedule row was found (line 118), so line
\* 125 looks the cron job up, which throws when none is registered, and
\* line 126 sends lastRun and nextRun
NoCronJob == "No Cron Job was found"

\* ------------------------------------------------------------ cron jobs
DailyCron == "0 3 * * *"
WeeklyCron == "0 2 * * 0"
MonthlyCron == "0 1 1 * *"
HourlyCron == "0 * * * *"

\* a string new CronJob() rejects
InvalidCron == "every day"

ValidCron(cron) == cron \in {DailyCron, WeeklyCron, MonthlyCron, HourlyCron}

TicksPerHour == 60 * 60 * TicksPerSecond

\* the clock starts on a Sunday, the first of a month of 31 days, at 00:00
Period(cron) ==
    CASE cron = HourlyCron -> TicksPerHour
      [] cron = DailyCron -> TicksPerDay
      [] cron = WeeklyCron -> 7 * TicksPerDay
      [] cron = MonthlyCron -> 31 * TicksPerDay

Offset(cron) ==
    CASE cron = HourlyCron -> 0
      [] cron = DailyCron -> 3 * TicksPerHour
      [] cron = WeeklyCron -> 2 * TicksPerHour
      [] cron = MonthlyCron -> TicksPerHour

\* job.nextDate(): the first time after t that matches the expression
NextDate(cron, t) ==
    LET k == IF t < Offset(cron) THEN 0
             ELSE (t - Offset(cron)) \div Period(cron) + 1
    IN  Offset(cron) + k * Period(cron)

\* SchedulerRegistry.deleteCronJob(name): the job is stopped and forgotten
deleteCronJob(reg, jb, type) ==
    <<[t \in DOMAIN reg \ {type} |-> reg[t]], jb \ {reg[type]}>>

\* BackupScheduler.addCronJob, lines 80-101: the registry and the started
\* jobs after the call.  new CronJob() throws on a bad expression and
\* SchedulerRegistry.addCronJob on a name that is taken; line 98 logs either
addCronJobMutant(reg, jb, type, cron) ==
    LET job == [type |-> type, cron |-> cron]
    IN  IF ~ValidCron(cron) \/ type \in DOMAIN reg
        THEN <<reg, jb>>
        ELSE <<reg @@ (type :> job), jb \cup {job}>>

addCronJob(reg, jb, type, cron) ==
    LET st == IF type \in DOMAIN reg THEN deleteCronJob(reg, jb, type)
              ELSE <<reg, jb>>
        job == [type |-> type, cron |-> cron]
    IN  IF ~ValidCron(cron) \/ type \in DOMAIN st[1]
        THEN st
        ELSE <<st[1] @@ (type :> job), st[2] \cup {job}>>

\* ------------------------------------------- BackupService.updateSchedule
\* lines 208-226, prisma upsert: the table after the call
ServiceUpdateSchedule(rows, type, data) ==
    IF type \in DOMAIN rows
    THEN [rows EXCEPT ![type].cronExpression = data.cronExpression,
                      ![type].retentionDays = data.retentionDays]
    ELSE rows @@ (type :>
           [cronExpression |-> data.cronExpression, enabled |-> TRUE,
            retentionDays |-> data.retentionDays,
            lastRun |-> Null, nextRun |-> Null])

\* ------------------------------------------------------- BackupScheduler
\* getSchedules orders the rows by type; every type has one row at most,
\* so the order of the enum does not show in what the loop leaves behind
TypeOrder == <<"DAILY", "WEEKLY", "MONTHLY", "MANUAL">>

\* lines 51-67
DefaultSchedules ==
    << [type |-> "DAILY", cronExpression |-> DailyCron, retentionDays |-> 7],
       [type |-> "WEEKLY", cronExpression |-> WeeklyCron,
        retentionDays |-> 30],
       [type |-> "MONTHLY", cronExpression |-> MonthlyCron,
        retentionDays |-> 365] >>

\* lines 32-36: addCronJob for every enabled row, from row k on
RECURSIVE AddEnabled(_, _, _)
AddEnabled(reg, jb, k) ==
    IF k > Len(TypeOrder) THEN <<reg, jb>>
    ELSE LET t == TypeOrder[k]
             st == IF t \in DOMAIN schedules /\ schedules[t].enabled
                   THEN addCronJob(reg, jb, t, schedules[t].cronExpression)
                   ELSE <<reg, jb>>
         IN  AddEnabled(st[1], st[2], k + 1)

\* lines 26-45: getSchedules has answered
initializeSchedules ==
    /\ Taken
    /\ boot.pc = "getSchedules"
    /\ IF DOMAIN schedules = {}
       THEN /\ boot' = [pc |-> "upsert", k |-> 1]
            /\ UNCHANGED <<registry, jobs>>
       ELSE LET st == AddEnabled(registry, jobs, 1)
            IN  /\ registry' = st[1]
                /\ jobs' = st[2]
                /\ boot' = [pc |-> "done", k |-> 0]
    /\ UNCHANGED <<now, db, ledger, run, del, rst, last, s3, files,
                   schedules, call, exe>>

\* line 30: the ledger rejects getSchedules, line 43 logs
initializeSchedulesFail ==
    /\ Taken
    /\ boot.pc = "getSchedules"
    /\ boot' = [pc |-> "failed", k |-> 0]
    /\ UNCHANGED <<now, db, ledger, run, del, rst, last, s3, files,
                   schedules, registry, jobs, call, exe>>

\* lines 69-72: the upsert of default k has answered, its job is added
createDefaultSchedulesMutant ==
    /\ Taken
    /\ boot.pc = "upsert"
    /\ LET d == DefaultSchedules[boot.k]
       IN  schedules' = ServiceUpdateSchedule(schedules, d.type, d)
    /\ boot' = IF boot.k < Len(DefaultSchedules)
               THEN [pc |-> "upsert", k |-> boot.k + 1]
               ELSE [pc |-> "done", k |-> 0]
    /\ UNCHANGED <<now, db, ledger, run, del, rst, last, s3, files,
                   registry, jobs, call, exe>>

createDefaultSchedules ==
    /\ Taken
    /\ boot.pc = "upsert"
    /\ LET d == DefaultSchedules[boot.k]
           st == addCronJob(registry, jobs, d.type, d.cronExpression)
       IN  /\ schedules' = ServiceUpdateSchedule(schedules, d.type, d)
           /\ registry' = st[1]
           /\ jobs' = st[2]
    /\ boot' = IF boot.k < Len(DefaultSchedules)
               THEN [pc |-> "upsert", k |-> boot.k + 1]
               ELSE [pc |-> "done", k |-> 0]
    /\ UNCHANGED <<now, db, ledger, run, del, rst, last, s3, files,
                   call, exe>>

\* line 70: the ledger rejects the upsert, line 43 logs, the rest is skipped
createDefaultSchedulesFail ==
    /\ Taken
    /\ boot.pc = "upsert"
    /\ boot' = [pc |-> "failed", k |-> boot.k]
    /\ UNCHANGED <<now, db, ledger, run, del, rst, last, s3, files,
                   schedules, registry, jobs, call, exe>>

\* lines 143-154; the call has no await, it runs in one piece
updateScheduleMutant(type, cronExpression, enabled) ==
    /\ Taken
    /\ LET st == IF enabled
                 THEN addCronJob(registry, jobs, type, cronExpression)
                 ELSE <<registry, jobs>>
       IN  /\ registry' = st[1]
           /\ jobs' = st[2]
    /\ call' = [op |-> "updateSchedule", type |-> type,
                cronExpression |-> cronExpression, enabled |-> enabled,
                registry |-> registry, jobs |-> jobs]
    /\ UNCHANGED <<now, db, ledger, run, del, rst, last, s3, files,
                   schedules, boot, exe>>

updateSchedule(type, cronExpression, enabled) ==
    /\ Taken
    /\ LET st == IF enabled
                 THEN addCronJob(registry, jobs, type, cronExpression)
                 ELSE IF type \in DOMAIN registry
                      THEN deleteCronJob(registry, jobs, type)
                      ELSE <<registry, jobs>>
       IN  /\ registry' = st[1]
           /\ jobs' = st[2]
    /\ call' = [op |-> "updateSchedule", type |-> type,
                cronExpression |-> cronExpression, enabled |-> enabled,
                registry |-> registry, jobs |-> jobs]
    /\ UNCHANGED <<now, db, ledger, run, del, rst, last, s3, files,
                   schedules, boot, exe>>

\* lines 124-132: the cron job is looked up, lastRun and nextRun are sent
UpdateLastRun(x) ==
    IF x.type \in DOMAIN registry
    THEN [x EXCEPT !.pc = "update", !.lastRun = now,
                   !.nextRun = NextDate(registry[x.type].cron, now)]
    ELSE [x EXCEPT !.pc = "done", !.err = NoCronJob]

\* cleanupOldBackups returns deletedCount to its caller
SweepReturns(x) ==
    IF x.by = "direct" THEN [x EXCEPT !.pc = "done"] ELSE UpdateLastRun(x)

\* lines 106-111: executeBackup calls createBackup
executeBackup(type, by) ==
    /\ createBackup(type)
    /\ exe' = Append(exe, NewCall(by, type, Len(ledger) + 1))

\* lines 90-92: a started job of the type fires
CronFire(type) ==
    /\ \E job \in jobs : job.type = type
    /\ executeBackup(type, "cron")

\* lines 159-161
triggerBackupNow(type) == executeBackup(type, "manual")

\* lines 111-115: createBackup returned, getSchedules is asked
BackupReturnedMutant(e) ==
    /\ Taken
    /\ exe[e].pc = "backup"
    /\ Resolved(run[exe[e].id])
    /\ exe' = [exe EXCEPT ![e].pc = "schedules"]
    /\ UNCHANGED <<now, db, ledger, run, del, rst, last, s3, files, sched>>

BackupReturned(e) ==
    /\ Taken
    /\ exe[e].pc = "backup"
    /\ run[exe[e].id].pc = "returned"
    /\ exe' = [exe EXCEPT ![e].pc = "schedules"]
    /\ UNCHANGED <<now, db, ledger, run, del, rst, last, s3, files, sched>>

\* lines 111, 134-137: createBackup threw, the error is logged
BackupThrewMutant(e) ==
    /\ Taken
    /\ exe[e].pc = "backup"
    /\ run[exe[e].id].pc \in {"thrown", "aborted"}
    /\ exe' = [exe EXCEPT ![e].pc = "thrown", ![e].err = run[exe[e].id].err]
    /\ UNCHANGED <<now, db, ledger, run, del, rst, last, s3, files, sched>>

BackupThrew(e) ==
    /\ Taken
    /\ exe[e].pc = "backup"
    /\ run[exe[e].id].pc \in {"thrown", "aborted"}
    /\ exe' = [exe EXCEPT ![e].pc = "done", ![e].err = run[exe[e].id].err]
    /\ UNCHANGED <<now, db, ledger, run, del, rst, last, s3, files, sched>>

\* lines 115-124: getSchedules has answered
GetRetention(e) ==
    /\ Taken
    /\ exe[e].pc = "schedules"
    /\ LET x == exe[e]
       IN  exe' = [exe EXCEPT ![e] =
             IF x.type \notin DOMAIN schedules THEN [x EXCEPT !.pc = "done"]
             ELSE IF schedules[x.type].retentionDays > 0
                  THEN StartSweep(x, schedules[x.type].retentionDays)
                  ELSE UpdateLastRun(x)]
    /\ UNCHANGED <<now, db, ledger, run, del, rst, last, s3, files, sched>>

\* line 231: cleanupOldBackups called by itself
cleanupOldBackups(type, retentionDays) ==
    /\ Taken
    /\ Cardinality({e \in Calls : exe[e].by = "direct"}) < MaxSweeps
    /\ exe' = Append(exe, StartSweep(NewCall("direct", type, 0),
                                     retentionDays))
    /\ UNCHANGED <<now, db, ledger, run, del, rst, last, s3, files, sched>>

\* lines 238-250: findMany has answered
SweepFindMutant(e) ==
    /\ Taken
    /\ exe[e].pc = "find"
    /\ LET x == exe[e]
           old == OldBackups(x.type, x.cutoff + 1)
           y == [x EXCEPT !.found = TRUE, !.sel = old, !.todo = old]
       IN  exe' = [exe EXCEPT ![e] =
             IF old = {} THEN SweepReturns(y) ELSE [y EXCEPT !.pc = "delete"]]
    /\ UNCHANGED <<now, db, ledger, run, del, rst, last, s3, files, sched>>

SweepFind(e) ==
    /\ Taken
    /\ exe[e].pc = "find"
    /\ LET x == exe[e]
           old == OldBackups(x.type, x.cutoff)
           y == [x EXCEPT !.found = TRUE, !.sel = old, !.todo = old]
       IN  exe' = [exe EXCEPT ![e] =
             IF old = {} THEN SweepReturns(y) ELSE [y EXCEPT !.pc = "delete"]]
    /\ UNCHANGED <<now, db, ledger, run, del, rst, last, s3, files, sched>>

\* line 252: deleteBackup is called for the next row; findMany has no
\* orderBy, the rows come in any order
SweepDelete(e) ==
    /\ exe[e].pc = "delete"
    /\ \E i \in exe[e].todo :
          /\ DeleteStart(i)
          /\ exe' = [exe EXCEPT ![e].pc = "await", ![e].cur = i,
                                ![e].todo = @ \ {i},
                                ![e].tried = Append(@, i)]

\* lines 252-257: deleteBackup has settled; a failure is logged
SweepTakeMutant(e) ==
    /\ exe[e].pc = "await"
    /\ last.op = "deleteBackup"
    /\ last.id = exe[e].cur
    /\ last' = NoOutcome
    /\ LET x == exe[e]
           y == [x EXCEPT !.cur = 0, !.ok = @ \cup {x.cur},
                          !.count = @ + 1]
       IN  exe' = [exe EXCEPT ![e] =
             IF last.err # Null
             THEN [x EXCEPT !.cur = 0, !.pc = "done", !.err = last.err]
             ELSE IF y.todo = {} THEN SweepReturns(y)
                  ELSE [y EXCEPT !.pc = "delete"]]
    /\ UNCHANGED <<now, db, ledger, run, del, rst, s3, files, sched>>

SweepTake(e) ==
    /\ exe[e].pc = "await"
    /\ last.op = "deleteBackup"
    /\ last.id = exe[e].cur
    /\ last' = NoOutcome
    /\ LET x == exe[e]
           y == IF last.err = Null
                THEN [x EXCEPT !.cur = 0, !.ok = @ \cup {x.cur},
                               !.count = @ + 1]
                ELSE [x EXCEPT !.cur = 0]
       IN  exe' = [exe EXCEPT ![e] =
             IF y.todo = {} THEN SweepReturns(y)
             ELSE [y EXCEPT !.pc = "delete"]]
    /\ UNCHANGED <<now, db, ledger, run, del, rst, s3, files, sched>>

\* lines 126-132: the ledger takes lastRun and nextRun
LastRunOkMutant(e) ==
    /\ Taken
    /\ exe[e].pc = "update"
    /\ schedules' = [schedules EXCEPT
                       ![exe[e].type].lastRun = exe[e].lastRun,
                       ![exe[e].type].nextRun = exe[e].nextRun,
                       ![exe[e].type].enabled = FALSE]
    /\ exe' = [exe EXCEPT ![e].pc = "done"]
    /\ UNCHANGED <<now, db, ledger, run, del, rst, last, s3, files,
                   registry, jobs, boot, call>>

LastRunOk(e) ==
    /\ Taken
    /\ exe[e].pc = "update"
    /\ schedules' = [schedules EXCEPT
                       ![exe[e].type].lastRun = exe[e].lastRun,
                       ![exe[e].type].nextRun = exe[e].nextRun]
    /\ exe' = [exe EXCEPT ![e].pc = "done"]
    /\ UNCHANGED <<now, db, ledger, run, del, rst, last, s3, files,
                   registry, jobs, boot, call>>

\* line 126: the ledger rejects the update, lines 134-137 log
LastRunFail(e) ==
    /\ Taken
    /\ exe[e].pc = "update"
    /\ exe' = [exe EXCEPT ![e].pc = "done", ![e].err = LedgerError]
    /\ UNCHANGED <<now, db, ledger, run, del, rst, last, s3, files, sched>>

\* ----------------------------------------------------- BackupController
\* lines 12-23, GET api/v1/backup/health: checkConnection runs SELECT 1
healthMutant ==
    /\ Taken
    /\ \E database \in {"connected", "disconnected"} :
          last' = Outcome("health", 0, database, Null)
    /\ jobs' = {}
    /\ registry' = NoRows
    /\ UNCHANGED <<now, db, ledger, run, del, rst, s3, files,
                   schedules, boot, call, exe>>

health ==
    /\ Taken
    /\ \E database \in {"connected", "disconnected"} :
          last' = Outcome("health", 0, database, Null)
    /\ UNCHANGED <<now, db, ledger, run, del, rst, s3, files, sched, exe>>

\* the caller of updateSchedule or of the probe takes the answer
TakeResult ==
    /\ last.op = "health" \/ call.op = "updateSchedule"
    /\ last' = NoOutcome
    /\ call' = NoCall
    /\ UNCHANGED <<now, db, ledger, run, del, rst, s3, files,
                   schedules, registry, jobs, boot, exe>>

\* ------------------------------------------------------------------ Next
\* createBackup and deleteBackup calls under a running clock
Next ==
    \/ Tick
    \/ Observe
    \/ \E type \in RunTypes : createBackup(type) /\ UNCHANGED exe
    \/ \E i \in Ids : DumpOk(i)
    \/ \E i \in Ids : DumpFail(i)
    \/ \E i \in Ids : UploadOk(i)
    \/ \E i \in Ids : UploadFail(i)
    \/ \E i \in Ids : DeleteLocal(i)
    \/ \E i \in Ids : CompleteOk(i)
    \/ \E i \in Ids : CompleteFail(i)
    \/ \E i \in Ids : CatchOk(i)
    \/ \E i \in Ids : CatchFail(i)
    \/ \E i \in Ids : DeleteStart(i) /\ UNCHANGED exe
    \/ \E i \in Ids : DeleteFileOk(i)
    \/ \E i \in Ids : DeleteFileFail(i)
    \/ \E i \in Ids : MarkDeletedOk(i)
    \/ \E i \in Ids : MarkDeletedFail(i)

Spec == Init /\ [][Next]_vars

\* createBackup, deleteBackup and restoreBackup calls; no call of the three
\* reads the clock after the row is named, so the clock stands still here
NextRestore ==
    \/ Observe
    \/ \E type \in RunTypes : createBackup(type) /\ UNCHANGED exe
    \/ \E i \in Ids : DumpOk(i)
    \/ \E i \in Ids : DumpFail(i)
    \/ \E i \in Ids : UploadOk(i)
    \/ \E i \in Ids : UploadFail(i)
    \/ \E i \in Ids : DeleteLocal(i)
    \/ \E i \in Ids : CompleteOk(i)
    \/ \E i \in Ids : CompleteFail(i)
    \/ \E i \in Ids : CatchOk(i)
    \/ \E i \in Ids : CatchFail(i)
    \/ \E i \in Ids : DeleteStart(i) /\ UNCHANGED exe
    \/ \E i \in Ids : DeleteFileOk(i)
    \/ \E i \in Ids : DeleteFileFail(i)
    \/ \E i \in Ids : MarkDeletedOk(i)
    \/ \E i \in Ids : MarkDeletedFail(i)
    \/ \E i \in Ids : RestoreRefused(i)
    \/ \E i \in Ids : RestoreStart(i)
    \/ \E i \in Ids : DownloadOk(i)
    \/ \E i \in Ids : DownloadFail(i)
    \/ \E i \in Ids : RestoreOk(i)
    \/ \E i \in Ids : RestoreFail(i)
    \/ \E i \in Ids : RestoreUnlink(i)

SpecRestore == Init /\ [][NextRestore]_vars

\* ------------------------------------------------------- scheduler runs
\* the types the checked behaviours fire and reschedule, the expressions
\* they reschedule to
FireTypes == {"DAILY", "WEEKLY"}

TriggerTypes == {"DAILY"}

SchedTypes == {"WEEKLY"}

\* updateSchedule's cronExpression and enabled
SchedInputs == {<<HourlyCron, TRUE>>, <<InvalidCron, TRUE>>,
                <<WeeklyCron, FALSE>>}

\* the backupSchedule table a restart finds: the default rows, WEEKLY
\* enabled or disabled by the operator
PersistedSchedules ==
    { [type \in {"DAILY", "WEEKLY", "MONTHLY"} |->
         LET d == CHOOSE d \in {DefaultSchedules[k] : k \in 1..3} :
                      d.type = type
         IN  [cronExpression |-> d.cronExpression,
              enabled |-> (type # "WEEKLY" \/ e),
              retentionDays |-> d.retentionDays,
              lastRun |-> Null, nextRun |-> Null]] : e \in BOOLEAN }

\* a row of the ledger whose run is over
Row(type, status, startedAt) ==
    [type |-> type, status |-> status,
     fileName |-> FileName(startedAt), s3Key |-> S3Key(type, startedAt),
     startedAt |-> startedAt,
     completedAt |-> IF status = "IN_PROGRESS" THEN Null ELSE startedAt,
     size |-> IF status \in {"COMPLETED", "DELETED"} THEN 1 ELSE Null,
     errorMessage |-> IF status = "FAILED" THEN DumpError ELSE Null]

\* the createBackup call that left the row in that status
Runner(status) ==
    [pc |-> CASE status \in {"COMPLETED", "DELETED"} -> "returned"
              [] status = "FAILED" -> "thrown"
              [] status = "IN_PROGRESS" -> "aborted",
     err |-> IF status \in {"COMPLETED", "DELETED"} THEN Null
             ELSE IF status = "FAILED" THEN DumpError ELSE LedgerError,
     step |-> IF status \in {"COMPLETED", "DELETED"} THEN Null ELSE "dump",
     size |-> IF status \in {"COMPLETED", "DELETED"} THEN 1 ELSE Null,
     uploads |-> IF status \in {"COMPLETED", "DELETED"} THEN 1 ELSE 0,
     warn |-> Null]

\* the bucket holds the objects of the COMPLETED rows
Stored(rows) ==
    {rows[i].s3Key : i \in {j \in 1..Len(rows) :
                               rows[j].status = "COMPLETED"}}


\* the first start: no rows, no schedules; or a restart RestartDays after
\* a DAILY backup was made
InitSched ==
    /\ \/ /\ now = 0
          /\ ledger = <<>>
          /\ schedules = NoRows
       \/ /\ now = RestartDays * TicksPerDay
          /\ ledger = <<Row("DAILY", "COMPLETED", 0)>>
          /\ schedules \in PersistedSchedules
    /\ run = [i \in 1..Len(ledger) |-> Runner(ledger[i].status)]
    /\ del = [i \in 1..Len(ledger) |-> IdleCall]
    /\ rst = [i \in 1..Len(ledger) |-> IdleCall]
    /\ s3 = Stored(ledger)
    /\ db = 0
    /\ last = NoOutcome
    /\ files = {}
    /\ registry = NoRows
    /\ jobs = {}
    /\ boot = [pc |-> "getSchedules", k |-> 0]
    /\ call = NoCall
    /\ exe = <<>>

\* the scheduler: start, rescheduling, fires and manual triggers with
\* their runs and sweeps, the probe
NextSched ==
    \/ TakeResult
    \/ health
    \/ initializeSchedules
    \/ initializeSchedulesFail
    \/ createDefaultSchedules
    \/ createDefaultSchedulesFail
    \/ \E type \in SchedTypes, in \in SchedInputs :
          updateSchedule(type, in[1], in[2])
    \/ \E type \in FireTypes : CronFire(type)
    \/ \E type \in TriggerTypes : triggerBackupNow(type)
    \/ \E i \in Ids : DumpOk(i)
    \/ \E i \in Ids : DumpFail(i)
    \/ \E i \in Ids : UploadOk(i)
    \/ \E i \in Ids : UploadFail(i)
    \/ \E i \in Ids : DeleteLocal(i)
    \/ \E i \in Ids : CompleteOk(i)
    \/ \E i \in Ids : CompleteFail(i)
    \/ \E i \in Ids : CatchOk(i)
    \/ \E i \in Ids : CatchFail(i)
    \/ \E e \in Calls : BackupReturned(e)
    \/ \E e \in Calls : BackupThrew(e)
    \/ \E e \in Calls : GetRetention(e)
    \/ \E e \in Calls : SweepFind(e)
    \/ \E e \in Calls : SweepDelete(e)
    \/ \E i \in Ids : DeleteFileOk(i)
    \/ \E i \in Ids : DeleteFileFail(i)
    \/ \E i \in Ids : MarkDeletedOk(i)
    \/ \E i \in Ids : MarkDeletedFail(i)
    \/ \E e \in Calls : SweepTake(e)
    \/ \E e \in Calls : LastRunOk(e)
    \/ \E e \in Calls : LastRunFail(e)

SpecSched == InitSched /\ [][NextSched]_vars

\* ------------------------------------------------------ retention sweeps
\* the ages of the rows a sweep starts from, the windows it is called with
SweepAges == {6 * TicksPerDay, 7 * TicksPerDay, 7 * TicksPerDay + 1,
              8 * TicksPerDay}

RetentionInputs == {6, 7}

SweepTypes == {"DAILY"}

\* the clock when the sweep is called: at the start of a second or in its
\* second half (the names of the rows are second-grained, the cutoff is not)
SweepClocks == {RestartDays * TicksPerDay, RestartDays * TicksPerDay + 1}

RowInputs(t) ==
    {Row(type, status, t - age) :
        type \in FireTypes, status \in BackupStatus, age \in SweepAges}

\* a ledger of up to MaxSweepRows rows whose runs are over, the bucket
\* holding the objects of the COMPLETED ones
InitSweep ==
    /\ now \in SweepClocks
    /\ ledger \in UNION {[1..n -> RowInputs(now)] : n \in 0..MaxSweepRows}
    /\ run = [i \in 1..Len(ledger) |-> Runner(ledger[i].status)]
    /\ del = [i \in 1..Len(ledger) |-> IdleCall]
    /\ rst = [i \in 1..Len(ledger) |-> IdleCall]
    /\ s3 = Stored(ledger)
    /\ db = 0
    /\ last = NoOutcome
    /\ files = {}
    /\ schedules = NoRows
    /\ registry = NoRows
    /\ jobs = {}
    /\ boot = [pc |-> "done", k |-> 0]
    /\ call = NoCall
    /\ exe = <<>>

\* cleanupOldBackups called by itself over such a ledger
NextSweep ==
    \/ \E type \in SweepTypes, retentionDays \in RetentionInputs :
          cleanupOldBackups(type, retentionDays)
    \/ \E e \in Calls : SweepFind(e)
    \/ \E e \in Calls : SweepDelete(e)
    \/ \E i \in Ids : DeleteFileOk(i)
    \/ \E i \in Ids : DeleteFileFail(i)
    \/ \E i \in Ids : MarkDeletedOk(i)
    \/ \E i \in Ids : MarkDeletedFail(i)
    \/ \E e \in Calls : SweepTake(e)

SpecSweep == InitSweep /\ [][NextSweep]_vars

\* --------------------------------------------------- fires and restores
\* fires with their runs and sweeps next to restoreBackup calls, after a
\* first start or a restart
NextFrame ==
    \/ Observe /\ last.op = "restoreBackup"
    \/ initializeSchedules
    \/ createDefaultSchedules
    \/ \E type \in FireTypes : CronFire(type)
    \/ \E i \in Ids : DumpOk(i)
    \/ \E i \in Ids : DumpFail(i)
    \/ \E i \in Ids : UploadOk(i)
    \/ \E i \in Ids : UploadFail(i)
    \/ \E i \in Ids : DeleteLocal(i)
    \/ \E i \in Ids : CompleteOk(i)
    \/ \E i \in Ids : CompleteFail(i)
    \/ \E i \in Ids : CatchOk(i)
    \/ \E i \in Ids : CatchFail(i)
    \/ \E e \in Calls : BackupReturned(e)
    \/ \E e \in Calls : BackupThrew(e)
    \/ \E e \in Calls : GetRetention(e)
    \/ \E e \in Calls : SweepFind(e)
    \/ \E e \in Calls : SweepDelete(e)
    \/ \E i \in Ids : DeleteFileOk(i)
    \/ \E i \in Ids : DeleteFileFail(i)
    \/ \E i \in Ids : MarkDeletedOk(i)
    \/ \E i \in Ids : MarkDeletedFail(i)
    \/ \E e \in Calls : SweepTake(e)
    \/ \E e \in Calls : LastRunOk(e)
    \/ \E e \in Calls : LastRunFail(e)
    \/ \E i \in Ids : RestoreRefused(i)
    \/ \E i \in Ids : RestoreStart(i)
    \/ \E i \in Ids : DownloadOk(i)
    \/ \E i \in Ids : DownloadFail(i)
    \/ \E i \in Ids : RestoreOk(i)
    \/ \E i \in Ids : RestoreFail(i)
    \/ \E i \in Ids : RestoreUnlink(i)

SpecFrame == InitSched /\ [][NextFrame]_vars

\* -------------------------------------------------------------- lookups
\* createBackup and deleteBackup calls next to calls with an id that no row
\* has, and reads by id
NextLookup ==
    \/ Observe
    \/ \E type \in RunTypes : createBackup(type) /\ UNCHANGED exe
    \/ \E i \in Ids : DumpOk(i)
    \/ \E i \in Ids : DumpFail(i)
    \/ \E i \in Ids : UploadOk(i)
    \/ \E i \in Ids : UploadFail(i)
    \/ \E i \in Ids : DeleteLocal(i)
    \/ \E i \in Ids : CompleteOk(i)
    \/ \E i \in Ids : CompleteFail(i)
    \/ \E i \in Ids : CatchOk(i)
    \/ \E i \in Ids : CatchFail(i)
    \/ \E i \in Ids : DeleteStart(i) /\ UNCHANGED exe
    \/ \E i \in Ids : DeleteFileOk(i)
    \/ \E i \in Ids : DeleteFileFail(i)
    \/ \E i \in Ids : MarkDeletedOk(i)
    \/ \E i \in Ids : MarkDeletedFail(i)
    \/ \E id \in Ids \cup UnknownIds : getBackupById(id)
    \/ \E id \in UnknownIds : RestoreNotFound(id)
    \/ \E id \in UnknownIds : DeleteNotFound(id)

SpecLookup == Init /\ [][NextLookup]_vars

\* ------------------------------------------------------------- progress
\* a step of the createBackup call that inserted row i
RunStep(i) ==
    /\ i \in Ids
    /\ \/ DumpOk(i)
       \/ DumpFail(i)
       \/ UploadOk(i)
       \/ UploadFail(i)
       \/ DeleteLocal(i)
       \/ CompleteOk(i)
       \/ CompleteFail(i)
       \/ CatchOk(i)
       \/ CatchFail(i)

\* createBackup calls alone under a running clock
NextRun ==
    \/ Tick
    \/ \E type \in RunTypes : createBackup(type) /\ UNCHANGED exe
    \/ \E i \in Ids : DumpOk(i)
    \/ \E i \in Ids : DumpFail(i)
    \/ \E i \in Ids : UploadOk(i)
    \/ \E i \in Ids : UploadFail(i)
    \/ \E i \in Ids : DeleteLocal(i)
    \/ \E i \in Ids : CompleteOk(i)
    \/ \E i \in Ids : CompleteFail(i)
    \/ \E i \in Ids : CatchOk(i)
    \/ \E i \in Ids : CatchFail(i)

\* every awaited call settles (pg_dump within its timeout of 30 minutes;
\* the S3 and the ledger clients are taken to answer) and the event loop
\* then runs the continuation
SpecRun ==
    /\ Init
    /\ [][NextRun]_vars
    /\ \A i \in 1..MaxRecords : WF_vars(RunStep(i))

\* ================================================================ claims

\* C1: for every backup type, at most one row of that type is IN_PROGRESS.
OneInProgressPerType ==
    \A T \in BackupType :
        Cardinality({i \in Ids : ledger[i].type = T
                                 /\ ledger[i].status = "IN_PROGRESS"}) <= 1

\* C2: while a createBackup call of a type has not resolved, no step inserts
\* another row of that type (the second call is refused without a row).
SecondCallCreatesNoRecord ==
    [][\A T \in BackupType :
          (\E i \in Ids : ledger[i].type = T /\ ~Resolved(run[i]))
          => ~(/\ Len(ledger') = Len(ledger) + 1
               /\ ledger'[Len(ledger')].type = T)]_vars

\* C3: no two rows of the ledger share an s3Key, whatever their status.
UniqueStorageKey ==
    \A i, j \in Ids : i # j => ledger[i].s3Key # ledger[j].s3Key

\* C4: when createBackup has rethrown an upload failure, the row is FAILED
\* with an errorMessage, the bucket holds nothing at its key and the local
\* dump file is gone.
UploadFailureLeavesNothing ==
    \A i \in Ids :
        (run[i].pc = "thrown" /\ run[i].step = "upload")
        => /\ ledger[i].status = "FAILED"
           /\ ledger[i].errorMessage # Null
           /\ ledger[i].s3Key \notin s3
           /\ BackupPath(ledger[i].fileName) \notin files

\* the step in which pg_dump fails leaves no dump file and touches neither
\* the bucket nor the ledger; a run whose dump failed never called uploadFile
DumpFailureStep(i) ==
    /\ (run[i].pc = "dump" /\ run'[i].pc = "catch")
       => /\ BackupPath(ledger[i].fileName) \notin files'
          /\ s3' = s3
          /\ ledger' = ledger
    /\ run'[i].step = "dump" => run'[i].uploads = 0

DeletedOnlyAfterStorageDelete ==
    [][\A i \in Ids :
          del[i].snap = "COMPLETED"
          => /\ (del[i].pc = "s3" /\ ledger'[i].status = "DELETED")
                => ledger[i].status = "DELETED"
             /\ (del[i].pc = "update" /\ ledger'[i].status # ledger[i].status)
                => del[i].s3ok /\ ledger'[i].status = "DELETED"
             /\ (del[i].pc = "s3" /\ del'[i].pc = "idle")
                => /\ ledger'[i].status = ledger[i].status
                   /\ last' = Outcome("deleteBackup", i, "COMPLETED",
                                      S3DeleteError)]_vars

\* C6 witness: a COMPLETED row was deleted from the bucket, then marked.
CompletedRowDeleted ==
    /\ last.op = "deleteBackup"
    /\ last.snap = "COMPLETED"
    /\ last.err = Null
    /\ ledger[last.id].status = "DELETED"
    /\ ledger[last.id].s3Key \notin s3

\* C7: when deleteBackup of a COMPLETED row has settled, it is not the case
\* that the object is gone while the row is not DELETED.
DeleteIsAtomic ==
    (last.op = "deleteBackup" /\ last.snap = "COMPLETED")
    => ~(/\ ledger[last.id].s3Key \notin s3
         /\ ledger[last.id].status # "DELETED")

\* C8: deleteBackup of a row read IN_PROGRESS settles with InvalidState and
\* the row still IN_PROGRESS.
DeleteInProgressRejected ==
    (last.op = "deleteBackup" /\ last.snap = "IN_PROGRESS")
    => /\ last.err = InvalidState
       /\ ledger[last.id].status = "IN_PROGRESS"

\* position of a status in IN_PROGRESS -> COMPLETED or FAILED -> DELETED
Rank(status) ==
    CASE status = "IN_PROGRESS" -> 0
      [] status \in {"COMPLETED", "FAILED"} -> 1
      [] status = "DELETED" -> 2

\* C9: a DELETED row stays DELETED, and no step moves a status backwards or
\* between COMPLETED and FAILED.
StatusMonotonic ==
    [][\A i \in Ids :
          /\ ledger[i].status = "DELETED" => ledger'[i].status = "DELETED"
          /\ Rank(ledger'[i].status) >= Rank(ledger[i].status)
          /\ Rank(ledger'[i].status) = Rank(ledger[i].status)
             => ledger'[i].status = ledger[i].status]_vars

\* C10: restoreBackup of a row that is not COMPLETED throws InvalidState
\* in the step that reads the row, with the database, the bucket, the local
\* files and the ledger untouched; a download or a psql run is in flight
\* only for a row that was read COMPLETED.
RestoreNeedsCompleted ==
    [][\A i \in Ids :
          /\ rst'[i].pc # "idle" => rst'[i].snap = "COMPLETED"
          /\ (rst[i].pc = "idle" /\ ledger[i].status # "COMPLETED")
             => /\ rst'[i].pc = "idle"
                /\ (last'.op = "restoreBackup" /\ last'.id = i)
                   => /\ last' = Outcome("restoreBackup", i,
                                         ledger[i].status, InvalidState)
                      /\ db' = db
                      /\ s3' = s3
                      /\ files' = files
                      /\ ledger' = ledger]_vars

\* C10 witness: a restore of a FAILED row was refused.
RestoreOfFailedRefused ==
    /\ last.op = "restoreBackup"
    /\ last.snap = "FAILED"
    /\ last.err = InvalidState
    /\ ledger[last.id].status = "FAILED"

\* C11: the step in which a restoreBackup call that has downloaded the
\* object settles, with success or with the executor's failure, leaves no
\* file at the call's local path.
RestoreFileRemoved ==
    [][\A i \in Ids :
          (rst[i].pc \in {"restore", "unlink"} /\ rst'[i].pc = "idle")
          => RestorePath(ledger[i].fileName) \notin files']_vars

\* C12: no step of a restoreBackup call changes the ledger, and a call
\* that fails at the download or at the executor settles with that error.
RestoreLeavesLedger ==
    [][\A i \in Ids :
          rst'[i] # rst[i]
          => /\ ledger' = ledger
             /\ (rst[i].pc = "download" /\ rst'[i].pc = "idle")
                => last' = Outcome("restoreBackup", i, "COMPLETED",
                                   DownloadError)
             /\ (rst[i].pc = "restore" /\ rst'[i].pc = "idle")
                => last' = Outcome("restoreBackup", i, "COMPLETED",
                                   RestoreError)]_vars

\* C12 witness: a restore failed at the executor, the row is as it was.
RestoreFailurePropagated ==
    /\ last.op = "restoreBackup"
    /\ last.err = RestoreError
    /\ ledger[last.id].status = "COMPLETED"
    /\ ledger[last.id].errorMessage = Null

\* a DateTime column holds a date (a clock reading), not null
IsDate(v) == ToString(v) # ToString(Null)

\* the createBackup call of row i settles in this step after its dump or
\* its upload has failed
StepFailureSettles(i) ==
    /\ run[i].step \in {"dump", "upload"}
    /\ ~Resolved(run[i])
    /\ Resolved(run'[i])

SweepSelectsExpired ==
    [][\A e \in Calls :
          (exe[e].pc = "find" /\ exe'[e].pc # "find")
          => LET Mine == {i \in Ids : /\ ledger[i].type = exe[e].type
                                      /\ ledger[i].status = "COMPLETED"}
                 Age(i) == exe[e].at - ledger[i].startedAt
             IN  /\ exe'[e].sel =
                       {i \in Mine : Age(i) > exe[e].days * TicksPerDay}
                 /\ exe[e].days = 7
                    => \A i \in Mine :
                          /\ Age(i) = 8 * TicksPerDay => i \in exe'[e].sel
                          /\ Age(i) = 7 * TicksPerDay => i \notin exe'[e].sel
                          /\ Age(i) = 6 * TicksPerDay
                             => i \notin exe'[e].sel]_vars

\* C13 witness: a sweep with a window of 7 days has selected a row of 8
\* days and left rows of exactly 7 days and of 6 days.
BoundaryRowRetained ==
    \E e \in Calls :
        /\ exe[e].pc = "delete"
        /\ exe[e].tried = <<>>
        /\ exe[e].days = 7
        /\ \E i, j, k \in Ids :
              /\ ledger[i].type = exe[e].type
              /\ ledger[j].type = exe[e].type
              /\ ledger[k].type = exe[e].type
              /\ ledger[i].status = "COMPLETED"
              /\ ledger[j].status = "COMPLETED"
              /\ ledger[k].status = "COMPLETED"
              /\ exe[e].at - ledger[i].startedAt = 8 * TicksPerDay
              /\ exe[e].at - ledger[j].startedAt = 7 * TicksPerDay
              /\ exe[e].at - ledger[k].startedAt = 6 * TicksPerDay
              /\ exe[e].sel = {i}

\* the set of the elements of a sequence
Range(seq) == {seq[k] : k \in 1..Len(seq)}

\* C14: a sweep that is over has called deleteBackup once for every row it
\* selected, whatever failed on the way; it has not thrown; its count is
\* the number of rows whose deleteBackup returned, and those are DELETED.
SweepVisitsAll ==
    \A e \in Calls :
        (exe[e].found /\ exe[e].pc \notin {"find", "delete", "await"})
        => /\ Range(exe[e].tried) = exe[e].sel
           /\ Len(exe[e].tried) = Cardinality(exe[e].sel)
           /\ exe[e].ok \subseteq exe[e].sel
           /\ exe[e].count = Cardinality(exe[e].ok)
           /\ \A i \in exe[e].ok : ledger[i].status = "DELETED"
           /\ exe[e].by = "direct" => exe[e].pc = "done" /\ exe[e].err = Null

\* C14 witness: a sweep returned after a deletion that failed was followed
\* by one that succeeded.
SweepWentOn ==
    \E e \in Calls :
        /\ exe[e].by = "direct"
        /\ exe[e].pc = "done"
        /\ \E p, q \in 1..Len(exe[e].tried) :
              /\ p < q
              /\ exe[e].tried[p] \notin exe[e].ok
              /\ exe[e].tried[q] \in exe[e].ok
        /\ exe[e].count = Cardinality(exe[e].ok)

\* the step starts an executeBackup call of type T
Fires(T) ==
    /\ Len(exe') = Len(exe) + 1
    /\ exe'[Len(exe')].type = T
    /\ exe'[Len(exe')].by \in {"cron", "manual"}

\* C15: a fire or a manual trigger of type T that comes while a row of type
\* T is IN_PROGRESS is skipped: the step adds no row to the ledger and the
\* call is over at once, with no createBackup behind it.
FireSkippedWhileRunning ==
    [][\A T \in BackupType :
          (Fires(T) /\ \E i \in Ids : /\ ledger[i].type = T
                                      /\ ledger[i].status = "IN_PROGRESS")
          => /\ Len(ledger') = Len(ledger)
             /\ exe'[Len(exe')].pc = "done"]_vars

\* the started timers of type T
TimersIn(jb, T) == {job \in jb : job.type = T}

Timers(T) == TimersIn(jobs, T)

\* C16: every type has at most one started timer, the started timers are
\* the registered ones, and after updateSchedule(T, c, true) the timers T
\* had before are gone unless c is theirs: T runs on c alone, or on nothing
\* when c is no cron expression; the other types keep their timers.
OneTimerPerType ==
    /\ \A T \in BackupType : Cardinality(Timers(T)) <= 1
    /\ jobs = {registry[T] : T \in DOMAIN registry}
    /\ \A T \in DOMAIN registry : registry[T].type = T
    /\ (call.op = "updateSchedule" /\ call.enabled)
       => LET T == call.type
              c == call.cronExpression
          IN  /\ Timers(T) = IF ValidCron(c)
                             THEN {[type |-> T, cron |-> c]} ELSE {}
              /\ jobs \ Timers(T)
                 = {job \in call.jobs : job.type # T}

\* C16 witness: a type that had a timer was rescheduled to another
\* expression.
TimerReplaced ==
    /\ call.op = "updateSchedule"
    /\ call.enabled
    /\ call.type \in DOMAIN call.registry
    /\ call.type \in DOMAIN registry
    /\ registry[call.type] # call.registry[call.type]

\* C17: updateSchedule(T, _, false) leaves T without a timer: the one timer
\* T had is stopped and unregistered, the other types keep theirs, and with
\* no timer of T the call changes nothing; a timer fires only while it is
\* registered, and a type gets a timer only from updateSchedule(T, _, true)
\* or from the start-up.
DisableDeregisters ==
    [][/\ (call.op = Null /\ call'.op = "updateSchedule"
                          /\ ~call'.enabled)
          => LET T == call'.type
             IN  /\ T \notin DOMAIN registry'
                 /\ TimersIn(jobs', T) = {}
                 /\ jobs' = jobs \ TimersIn(jobs, T)
                 /\ \A U \in DOMAIN registry \ {T} :
                       U \in DOMAIN registry' /\ registry'[U] = registry[U]
                 /\ T \notin DOMAIN registry
                    => UNCHANGED <<now, db, ledger, run, del, rst, s3,
                                   files, schedules, registry, jobs, boot,
                                   exe>>
       /\ \A T \in BackupType :
             /\ (Fires(T) /\ exe'[Len(exe')].by = "cron")
                => T \in DOMAIN registry /\ Timers(T) # {}
             /\ (Timers(T) = {} /\ TimersIn(jobs', T) # {})
                => \/ boot' # boot
                   \/ /\ call'.op = "updateSchedule"
                      /\ call'.enabled
                      /\ call'.type = T]_vars

\* C17 witness: a type that had a timer was disabled.
TimerDeregistered ==
    /\ call.op = "updateSchedule"
    /\ ~call.enabled
    /\ call.type \in DOMAIN call.registry
    /\ call.type \notin DOMAIN registry
    /\ Timers(call.type) = {}
    /\ jobs # {}

\* C18: no executeBackup call ever throws; no step of a run, of its sweep
\* or of its lastRun update touches the registry or a started timer; and a
\* registered timer can fire whatever the runs of the other types are
\* doing, as long as the bounds of the checked behaviours leave room.
CyclesAreIndependent ==
    /\ [](\A e \in Calls : exe[e].pc # "thrown")
    /\ [](\A T \in FireTypes :
             (/\ Timers(T) # {}
              /\ Taken
              /\ Len(ledger) < MaxRecords
              /\ InFlight < MaxCalls)
             => ENABLED CronFire(T))
    /\ [][(exe' # exe \/ run' # run \/ del' # del)
          => /\ registry' = registry
             /\ jobs' = jobs]_vars

\* C18 witness: a cycle of one type failed at its upload and was logged,
\* a later fire of another type went through to its lastRun update, and
\* both timers are still registered.
OtherTypeWentThrough ==
    \E d, e \in Calls :
        /\ d < e
        /\ exe[d].type # exe[e].type
        /\ exe[d].pc = "done"
        /\ exe[d].err = UploadError
        /\ ledger[exe[d].id].status = "FAILED"
        /\ exe[e].by = "cron"
        /\ exe[e].pc = "done"
        /\ exe[e].err = Null
        /\ ledger[exe[e].id].status = "COMPLETED"
        /\ {exe[d].type, exe[e].type} \subseteq DOMAIN registry
        /\ exe[e].type \in DOMAIN schedules
        /\ IsDate(schedules[exe[e].type].lastRun)

RecordSettles ==
    \A i \in 1..MaxRecords :
        (i \in Ids /\ ledger[i].status = "IN_PROGRESS")
        ~> (i \in Ids /\ ledger[i].status \in {"COMPLETED", "FAILED"})

\* the table holds the row of default d as createDefaultSchedules sends it
IsDefault(rows, d) ==
    /\ d.type \in DOMAIN rows
    /\ rows[d.type].cronExpression = d.cronExpression
    /\ rows[d.type].retentionDays = d.retentionDays
    /\ rows[d.type].enabled

\* the step ends the start-up
StartupEnds ==
    /\ boot.pc \in {"getSchedules", "upsert"}
    /\ boot'.pc \in {"done", "failed"}

\* the start-up found rows in the table: no row is written, a timer is set
\* on the row's expression for every enabled row, and the step registers
\* or removes nothing for the other types
ExistingSchedulesKept ==
    /\ schedules' = schedules
    /\ \A T \in BackupType :
          IF T \in DOMAIN schedules /\ schedules[T].enabled
          THEN /\ T \in DOMAIN registry'
               /\ registry'[T] =
                     [type |-> T, cron |-> schedules[T].cronExpression]
               /\ registry'[T] \in jobs'
          ELSE /\ T \in DOMAIN registry' <=> T \in DOMAIN registry
               /\ TimersIn(jobs', T) = TimersIn(jobs, T)

\* the table holds exactly the three defaults
DefaultsCreated(rows) ==
    /\ DOMAIN rows = {"DAILY", "WEEKLY", "MONTHLY"}
    /\ \A k \in 1..Len(DefaultSchedules) : IsDefault(rows, DefaultSchedules[k])
    /\ rows["DAILY"].retentionDays = 7
    /\ rows["WEEKLY"].retentionDays = 30
    /\ rows["MONTHLY"].retentionDays = 365

FireStampsSchedule ==
    [][\A e \in Calls :
          (/\ exe[e].by = "cron"
           /\ exe[e].pc # "done"
           /\ exe'[e].pc = "done"
           /\ exe[e].type \in DOMAIN schedules')
          => LET T == exe[e].type
             IN  /\ ToString(schedules'[T].lastRun) = ToString(now)
                 /\ T \in DOMAIN registry
                 /\ ToString(schedules'[T].nextRun)
                       = ToString(NextDate(registry[T].cron, now))]_vars

\* a column holds a value, not null
IsSet(v) == ToString(v) # ToString(Null)

\* C24: a row that is IN_PROGRESS has no completedAt, no size and no
\* errorMessage; no row has both a size and an errorMessage; a step that
\* writes size is the one that sets the row COMPLETED, a step that writes
\* errorMessage is the one that sets it FAILED.
FieldsFollowStatus ==
    /\ [](\A i \in Ids :
             /\ ledger[i].status = "IN_PROGRESS"
                => /\ ~IsSet(ledger[i].completedAt)
                   /\ ~IsSet(ledger[i].size)
                   /\ ~IsSet(ledger[i].errorMessage)
             /\ ~(IsSet(ledger[i].size) /\ IsSet(ledger[i].errorMessage)))
    /\ [][\A i \in Ids :
             /\ ToString(ledger'[i].size) # ToString(ledger[i].size)
                => /\ ledger'[i].status = "COMPLETED"
                   /\ ledger[i].status # "COMPLETED"
             /\ ledger'[i].errorMessage # ledger[i].errorMessage
                => /\ ledger'[i].status = "FAILED"
                   /\ ledger[i].status # "FAILED"]_vars

\* C24 witness: one row is COMPLETED with a size and no errorMessage,
\* another is FAILED with an errorMessage and no size.
BothOutcomesRecorded ==
    \E i, j \in Ids :
        /\ ledger[i].status = "COMPLETED"
        /\ IsSet(ledger[i].size)
        /\ ~IsSet(ledger[i].errorMessage)
        /\ ledger[j].status = "FAILED"
        /\ IsSet(ledger[j].errorMessage)
        /\ ~IsSet(ledger[j].size)
        /\ IsSet(ledger[j].completedAt)

\* C25: a step of a fire, of a run, of a restore, of a deletion or of a
\* sweep (any step but those of the start-up) adds or removes no schedule
\* row and leaves cronExpression, enabled and retentionDays of every row as
\* they were; lastRun and nextRun of a row change only in the step in which
\* a fire of the row's type writes them.
FiresKeepScheduleConfig ==
    [][boot' = boot
       => /\ DOMAIN schedules' = DOMAIN schedules
          /\ \A T \in DOMAIN schedules :
                /\ schedules'[T].cronExpression = schedules[T].cronExpression
                /\ schedules'[T].enabled = schedules[T].enabled
                /\ schedules'[T].retentionDays = schedules[T].retentionDays
                /\ (\/ ToString(schedules'[T].lastRun)
                          # ToString(schedules[T].lastRun)
                    \/ ToString(schedules'[T].nextRun)
                          # ToString(schedules[T].nextRun))
                   => \E e \in Calls : /\ exe[e].type = T
                                       /\ exe[e].pc = "update"
                                       /\ exe'[e].pc = "done"]_vars

\* C25 witness: a DAILY fire has made its backup, swept the old row and
\* written lastRun, a restore has been applied, and the DAILY row still has
\* its expression, its flag and its window.
ConfigKeptAfterFire ==
    /\ "DAILY" \in DOMAIN schedules
    /\ IsSet(schedules["DAILY"].lastRun)
    /\ IsSet(schedules["DAILY"].nextRun)
    /\ schedules["DAILY"].cronExpression = DailyCron
    /\ schedules["DAILY"].enabled
    /\ schedules["DAILY"].retentionDays = 7
    /\ \E i \in Ids : ledger[i].status = "DELETED"
    /\ db # 0

\* C26: a fire creates exactly one row, and a row is created by no other
\* step; the row's run calls the dump once, when the row is created, and a
\* run that is over takes no further step; a fire stays with its row and no
\* two fires share one; a FAILED row never becomes IN_PROGRESS or
\* COMPLETED; a new run gets a new id and the rows before it keep theirs.
FailedIsNotRetried ==
    /\ [](\A d, e \in Calls :
             (d # e /\ exe[d].by # "direct" /\ exe[e].by # "direct")
             => exe[d].id # exe[e].id)
    /\ [][/\ \A i \in Ids :
                /\ ledger[i].status = "FAILED"
                   => ledger'[i].status \notin {"IN_PROGRESS", "COMPLETED"}
                /\ run'[i].pc = "dump" => run[i].pc = "dump"
                /\ Resolved(run[i]) => run'[i] = run[i]
                /\ ledger'[i].fileName = ledger[i].fileName
                /\ ledger'[i].s3Key = ledger[i].s3Key
                /\ ledger'[i].type = ledger[i].type
          /\ \A e \in Calls : exe'[e].id = exe[e].id
          /\ Len(ledger') \in {Len(ledger), Len(ledger) + 1}
          /\ Len(run') = Len(ledger')
          /\ (\E T \in BackupType : Fires(T))
             <=> Len(ledger') = Len(ledger) + 1
          /\ Len(ledger') = Len(ledger) + 1
             => /\ exe'[Len(exe')].id = Len(ledger')
                /\ exe'[Len(exe')].id \notin Ids
                /\ ledger'[Len(ledger')].status = "IN_PROGRESS"
                /\ run'[Len(ledger')].pc = "dump"]_vars

\* C26 witness: a fire has ended with its row FAILED, and a later fire has
\* its own row, with another id.
LaterRunGetsNewRecord ==
    \E d, e \in Calls :
        /\ d < e
        /\ exe[d].pc = "done"
        /\ exe[d].err = DumpError
        /\ ledger[exe[d].id].status = "FAILED"
        /\ Resolved(run[exe[d].id])
        /\ exe[e].type = exe[d].type
        /\ exe[e].id > exe[d].id
        /\ ledger[exe[e].id].status = "COMPLETED"

\* the moves of a createBackup call from one await to the next
StepOrder ==
    {<<"dump", "upload">>, <<"dump", "catch">>, <<"upload", "unlink">>,
     <<"upload", "catch">>, <<"unlink", "complete">>,
     <<"complete", "returned">>, <<"complete", "catch">>,
     <<"catch", "thrown">>, <<"catch", "aborted">>}

\* C27: a createBackup call starts with its row inserted IN_PROGRESS and the
\* dump called, and moves on in the order dump, upload, removal of the local
\* file, COMPLETED; uploadFile is called at most once and only after the
\* dump succeeded; the row is set COMPLETED only by its own run, after that
\* run's upload succeeded and the removal of its local file was tried.
StepsInOrder ==
    /\ [](\A i \in Ids :
             /\ run[i].uploads <= 1
             /\ run[i].uploads = 1 => IsSet(run[i].size)
             /\ run[i].pc \in {"unlink", "complete", "returned"}
                => run[i].uploads = 1 /\ run[i].step = Null)
    /\ [][/\ \A i \in Ids :
                /\ run'[i].pc # run[i].pc
                   => <<run[i].pc, run'[i].pc>> \in StepOrder
                /\ run'[i].uploads # run[i].uploads
                   => /\ run[i].pc = "upload"
                      /\ IsSet(run[i].size)
                /\ (run[i].pc = "upload" /\ run'[i].pc = "unlink")
                   => ledger[i].s3Key \in s3'
                /\ (ledger'[i].status = "COMPLETED"
                    /\ ledger[i].status # "COMPLETED")
                   => /\ run[i].pc = "complete"
                      /\ run'[i].pc = "returned"
                      /\ run[i].uploads = 1
          /\ Len(ledger') > Len(ledger)
             => /\ ledger'[Len(ledger')].status = "IN_PROGRESS"
                /\ run'[Len(ledger')].pc = "dump"
                /\ run'[Len(ledger')].uploads = 0]_vars

\* C27 witness: a createBackup call has returned: dumped, uploaded once,
\* the local file removed, the row COMPLETED.
RunWentThrough ==
    \E i \in Ids :
        /\ run[i].pc = "returned"
        /\ run[i].uploads = 1
        /\ IsSet(run[i].size)
        /\ ledger[i].status = "COMPLETED"
        /\ ledger[i].s3Key \in s3
        /\ BackupPath(ledger[i].fileName) \notin files

\* the fire has asked for its retention window or is in its sweep
InSweep(x) == x.pc \in {"schedules", "find", "delete", "await"}

\* C28: a fire is in its sweep, or has selected or tried rows, only when
\* the createBackup call of that fire has returned; a fire whose
\* createBackup threw has selected nothing and called deleteBackup for no
\* row; and the step in which a fire calls deleteBackup belongs to a fire
\* whose createBackup returned.
SweepOnlyAfterSuccess ==
    /\ [](\A e \in Calls :
             exe[e].by # "direct"
             => /\ (InSweep(exe[e]) \/ exe[e].found \/ exe[e].tried # <<>>)
                   => run[exe[e].id].pc = "returned"
                /\ run[exe[e].id].pc # "returned"
                   => /\ ~exe[e].found
                      /\ exe[e].sel = {}
                      /\ exe[e].tried = <<>>
                      /\ exe[e].ok = {}
                      /\ exe[e].count = 0)
    /\ [][\A e \in Calls :
             (exe[e].by # "direct" /\ exe'[e].tried # exe[e].tried)
             => /\ run[exe[e].id].pc = "returned"
                /\ exe[e].found]_vars

\* C28 witness: a DAILY fire whose backup failed is over without a sweep,
\* and the DAILY row that is older than the window is still COMPLETED.
FailedFireSweptNothing ==
    \E e \in Calls :
        /\ exe[e].by = "cron"
        /\ exe[e].pc = "done"
        /\ exe[e].err \in {DumpError, UploadError}
        /\ ledger[exe[e].id].status = "FAILED"
        /\ ~exe[e].found
        /\ exe[e].type \in DOMAIN schedules
        /\ \E i \in Ids :
              /\ ledger[i].type = exe[e].type
              /\ ledger[i].status = "COMPLETED"
              /\ ledger[i].startedAt <
                    CutoffDate(now, schedules[exe[e].type].retentionDays)

\* row i is one a sweep that has its rows may touch: of the sweep's type,
\* COMPLETED, started before the sweep's cutoff
Expired(i) ==
    \E e \in Calls :
        /\ exe[e].found
        /\ ledger[i].type = exe[e].type
        /\ ledger[i].status = "COMPLETED"
        /\ ledger[i].startedAt < exe[e].at - exe[e].days * TicksPerDay

\* C29: no step of a sweep changes a row that is of another type, that is
\* not COMPLETED or that is within the window, and the object of such a row
\* that is COMPLETED stays in the bucket.
SweepTouchesOnlyExpired ==
    [][\A i \in Ids :
          ~Expired(i)
          => /\ ledger'[i] = ledger[i]
             /\ (ledger[i].status = "COMPLETED" /\ ledger[i].s3Key \in s3)
                => ledger[i].s3Key \in s3']_vars

\* C30: the step in which a createBackup call tries to remove its local
\* file goes on to the COMPLETED update without an error whether the file
\* could be removed or not, touching neither the ledger nor the bucket; a
\* call whose removal failed can still have its row set COMPLETED, and when
\* it settles it has returned with the row COMPLETED or thrown what the
\* ledger answered, never the removal's error.
UnlinkFailureIgnored ==
    /\ [](\A i \in Ids :
             (run[i].pc = "complete" /\ Taken) => ENABLED CompleteOk(i))
    /\ [][\A i \in Ids :
             /\ (run[i].pc = "unlink" /\ run'[i] # run[i])
                => /\ run'[i].pc = "complete"
                   /\ run'[i].err = Null
                   /\ run'[i].step = Null
                   /\ ledger' = ledger
                   /\ s3' = s3
             /\ (run[i].warn # Null /\ ~Resolved(run[i]) /\ Resolved(run'[i]))
                => \/ /\ run'[i].pc = "returned"
                      /\ run'[i].err = Null
                      /\ ledger'[i].status = "COMPLETED"
                   \/ /\ run'[i].pc \in {"thrown", "aborted"}
                      /\ run'[i].err = LedgerError]_vars

\* C30 witness: a createBackup call could not remove its local file and
\* has returned with its row COMPLETED.
CompletedThoughUnlinkFailed ==
    \E i \in Ids :
        /\ run[i].warn = UnlinkError
        /\ run[i].pc = "returned"
        /\ run[i].err = Null
        /\ ledger[i].status = "COMPLETED"
        /\ IsSet(ledger[i].size)

\* C31: a restoreBackup, deleteBackup or getBackupById call with an id that
\* no row has settles in its first step with the not-found error, and that
\* step changes neither the ledger, the bucket, the local files, the
\* database nor any call in flight.
UnknownIdRejected ==
    [][(last.op = Null /\ last'.op # Null /\ last'.id \notin Ids)
       => /\ last'.op \in {"restoreBackup", "deleteBackup", "getBackupById"}
          /\ last'.err = NotFound
          /\ UNCHANGED <<now, db, ledger, run, del, rst, s3, files,
                         schedules, registry, jobs, boot, call, exe>>]_vars

\* C31 witness: a deleteBackup call with an unknown id was refused while
\* the ledger had a COMPLETED row and the bucket its object.
UnknownDeleteRefused ==
    /\ last.op = "deleteBackup"
    /\ last.id \notin Ids
    /\ last.err = NotFound
    /\ \E i \in Ids : ledger[i].status = "COMPLETED" /\ ledger[i].s3Key \in s3

\* C32: a row is set COMPLETED with its object in the bucket, and the
\* object of a COMPLETED row leaves the bucket only in a step of a
\* deleteBackup call of that very row: whatever is done to other rows, a
\* COMPLETED row keeps its object.
CompletedHasObject ==
    [][\A i \in Ids :
          /\ (ledger'[i].status = "COMPLETED" /\ ledger[i].status # "COMPLETED")
             => ledger[i].s3Key \in s3'
          /\ (/\ ledger[i].status = "COMPLETED"
              /\ ledger[i].s3Key \in s3
              /\ ledger[i].s3Key \notin s3')
             => del[i].pc = "s3"]_vars

\* C33: in every state no object is in the bucket at the s3Key of a row
\* whose status is FAILED.
FailedHasNoObject ==
    \A i \in Ids : ledger[i].status = "FAILED" => ledger[i].s3Key \notin s3

\* C34: in every state two createBackup calls of different types that are
\* both in flight have different local file paths.
InFlightPathsDiffer ==
    \A i, j \in Ids :
       (/\ ledger[i].type # ledger[j].type
        /\ ~Resolved(run[i])
        /\ ~Resolved(run[j]))
       => BackupPath(ledger[i].fileName) # BackupPath(ledger[j].fileName)

\* C35: once the sweep of a fire has asked for the old rows with a window
\* of at least one day, the row that fire created is not among the rows
\* selected, and from then on it is COMPLETED with its object in the bucket.
SweepKeepsNewBackup ==
    \A e \in Calls :
       (exe[e].by = "cron" /\ exe[e].found /\ exe[e].days >= 1)
       => /\ exe[e].id \notin exe[e].sel
          /\ ledger[exe[e].id].status = "COMPLETED"
          /\ ledger[exe[e].id].s3Key \in s3

\* the sweep of a fire has deleted an older row and the fire is over
OlderRowSweptNewKept ==
    \E e \in Calls :
       /\ exe[e].by = "cron"
       /\ exe[e].pc = "done"
       /\ exe[e].days >= 1
       /\ exe[e].ok # {}
       /\ \A i \in exe[e].ok : ledger[i].status = "DELETED"
       /\ ledger[exe[e].id].status = "COMPLETED"
       /\ ledger[exe[e].id].type = ledger[CHOOSE i \in exe[e].ok : TRUE].type

\* C36: an updateSchedule call leaves every createBackup call, every row,
\* every fire and sweep in flight and the bucket as they are, and no fire
\* started by a timer meets the error of a timer that is not registered,
\* whatever updateSchedule did to the timer of its type meanwhile.
FireSurvivesReschedule ==
    /\ [][(call.op = Null /\ call'.op = "updateSchedule")
          => UNCHANGED <<ledger, run, del, exe, s3, files, schedules>>]_vars
    /\ [](\A e \in Calls : exe[e].by = "cron" => exe[e].err # NoCronJob)

====
